---- MODULE Spec2Model ----
(***************************************************************************)
(* The job queue of src/App.tsx: the task list `files`, the queue manager  *)
(* processQueue, the workers processFileBackground / processSingleFile and *)
(* the user operations that change the list.                               *)
(*                                                                         *)
(* One step of the model is one run-to-completion turn of the browser's    *)
(* event loop: a user event handler, a timer callback, or the continuation *)
(* of an awaited promise together with the microtasks it triggers.         *)
(* setFiles is always called with an updater (prev => ...), so the list    *)
(* `files` below is the React state with every queued updater applied in   *)
(* call order.  What the rendered handlers and the refs see is the state as *)
(* of the last commit (filesRef, isProcessingSeen); Spec takes the commit  *)
(* of an update to happen in the turn that makes the update.               *)
(***************************************************************************)
EXTENDS Naturals, Sequences, FiniteSets, Bags, TLC

\* ---------------------------------------------------------------- bounds
MaxTasks   == 2    \* ids ever created
MaxTime    == 1    \* largest value of Date.now()
MaxWorkers == 2    \* workers in flight at once
MaxLoops   == 2    \* processQueue loops alive at once
MaxLimit   == 2    \* largest value typed into the maxConcurrency input
MaxDrop    == 3    \* files dropped at once on the paired upload area
MaxNamed   == 1    \* files picked by name

\* ------------------------------------------------------------- constants
Undefined == "undefined"
IDLE       == "IDLE"
PENDING    == "PENDING"
PROCESSING == "PROCESSING"
COMPLETED  == "COMPLETED"
FAILED     == "FAILED"
ProcessingStatus == {IDLE, PENDING, PROCESSING, COMPLETED, FAILED}

\* What translateImageWithGemini can return, and the messages it can throw
\* with ("" is an Error without a message).
Results       == {"r1"}
ServiceErrors == {"e1", ""}

\* What the user types into the prompt modal of a card
Prompts == {"p1"}

\* The File objects a user can drop on the paired upload area
DroppedFiles ==
    {[name |-> "a.png", type |-> "image/png"],
     [name |-> "b.jpg", type |-> "image/jpeg"],
     [name |-> "c.png", type |-> "image/png"],
     [name |-> "t.txt", type |-> "text/plain"]}

\* Text is a sequence of tokens: "$", "&" and "." are those characters, the
\* token Placeholder is the ten characters {filename}, and any other token
\* is a run of one or more characters other than "$", "&", "." and "/".
Placeholder == "{filename}"

\* the names of the image files a user can pick one at a time
NamedFiles == {"a.png", "a.b.png", "a.", "a$$.png", "a$&.png"}

\* what the user can type into the template field of the settings
Templates ==
    {<<Placeholder>>, <<"t">>, <<"t", Placeholder, "t", Placeholder>>}

\* what the user can save in the prompt modal of a card
Overrides == {"p1", Placeholder, ""}

\* the characters of a string
Chars(str) ==
    CASE str = ""        -> <<>>
      [] str = "a.png"   -> <<"a", ".", "png">>
      [] str = "b.jpg"   -> <<"b", ".", "jpg">>
      [] str = "c.png"   -> <<"c", ".", "png">>
      [] str = "t.txt"   -> <<"t", ".", "txt">>
      [] str = "a.b.png" -> <<"a", ".", "b", ".", "png">>
      [] str = "a."      -> <<"a", ".">>
      [] str = "a$$.png" -> <<"a", "$", "$", ".", "png">>
      [] str = "a$&.png" -> <<"a", "$", "&", ".", "png">>
      [] OTHER           -> <<str>>

Max(a, b) == IF a >= b THEN a ELSE b

VARIABLES
    apiKey,            \* apiKeyRef.current is set (a key was entered)
    files,             \* React state `files`
    filesRef,          \* filesRef.current: `files` as of the last commit
    isProcessing,      \* React state `isProcessing`
    isProcessingSeen,  \* `isProcessing` as closed over by the rendered handlers
    abort,             \* abortControllerRef.current
    autoRetry,         \* autoRetryRef.current
    enableConcurrency, \* enableConcurrencyRef.current
    maxConcurrency,    \* maxConcurrencyRef.current
    now,               \* Date.now()
    nextId,            \* ids handed out so far by crypto.randomUUID(), plus one
    queueTimers,       \* pending setTimeout(() => processQueue(), 0) callbacks
    loops,             \* processQueue loops inside `while (true)`
    workers,           \* bag of processSingleFile calls in flight
    customPromptTemplate  \* customPromptTemplateRef.current

vars == <<apiKey, files, filesRef, isProcessing, isProcessingSeen, abort,
          autoRetry, enableConcurrency, maxConcurrency, now, nextId,
          queueTimers, loops, workers, customPromptTemplate>>

settings == <<autoRetry, enableConcurrency, maxConcurrency, customPromptTemplate>>

\* ------------------------------------------------------ the list `files`
Ids(fs) == {fs[i].id : i \in DOMAIN fs}

\* the image file the user picked for the task id
UploadedFile(id) == "f" \o ToString(id)

NewFile(id, timestamp, prompt) ==
    [id |-> id, file |-> UploadedFile(id), secondaryFile |-> Undefined,
     status |-> IDLE,
     lastActivityTimestamp |-> timestamp, isRetry |-> FALSE,
     resultBlob |-> Undefined, error |-> Undefined, customPrompt |-> prompt]

\* f.type.startsWith('image/')
IsImage(f) == f.type \in {"image/png", "image/jpeg"}

\* incomingFiles.filter(f => f.type.startsWith('image/'))
RECURSIVE ImageFiles(_)
ImageFiles(incomingFiles) ==
    IF incomingFiles = <<>> THEN <<>>
    ELSE IF IsImage(Head(incomingFiles))
         THEN <<Head(incomingFiles)>> \o ImageFiles(Tail(incomingFiles))
         ELSE ImageFiles(Tail(incomingFiles))

\* the items pushed by addDualFilesToQueue; a record keeps the name of a File
DualItem(id, primary, secondary, timestamp) ==
    [id |-> id, file |-> primary.name, secondaryFile |-> secondary.name,
     status |-> IDLE, lastActivityTimestamp |-> timestamp, isRetry |-> FALSE,
     resultBlob |-> Undefined, error |-> Undefined, customPrompt |-> Undefined]

SingleItem(id, single, timestamp) ==
    [id |-> id, file |-> single.name, secondaryFile |-> Undefined,
     status |-> IDLE, lastActivityTimestamp |-> timestamp, isRetry |-> FALSE,
     resultBlob |-> Undefined, error |-> Undefined, customPrompt |-> Undefined]

\* the for loop without the branch of the odd one left over
RECURSIVE NewQueueItemsPairsOnly(_, _, _, _)
NewQueueItemsPairsOnly(imageFiles, i, id, timestamp) ==
    IF i + 1 <= Len(imageFiles)
    THEN <<DualItem(id, imageFiles[i], imageFiles[i + 1], timestamp)>>
             \o NewQueueItemsPairsOnly(imageFiles, i + 2, id + 1, timestamp)
    ELSE <<>>

\* for (let i = 0; i < imageFiles.length; i += 2) { ... }, from the index i
\* on (counted from 1), crypto.randomUUID() giving id, id + 1, ...
RECURSIVE NewQueueItems(_, _, _, _)
NewQueueItems(imageFiles, i, id, timestamp) ==
    IF i > Len(imageFiles) THEN <<>>
    ELSE IF i + 1 <= Len(imageFiles)
         THEN <<DualItem(id, imageFiles[i], imageFiles[i + 1], timestamp)>>
                  \o NewQueueItems(imageFiles, i + 2, id + 1, timestamp)
         ELSE <<SingleItem(id, imageFiles[i], timestamp)>>
                  \o NewQueueItems(imageFiles, i + 2, id + 1, timestamp)

\* newQueueItem without customPrompt: item.customPrompt
NewQueueItemWithoutPrompt(id, item, timestamp) ==
    [id |-> id, file |-> item.resultBlob, secondaryFile |-> Undefined,
     status |-> IDLE,
     lastActivityTimestamp |-> timestamp, isRetry |-> FALSE,
     resultBlob |-> Undefined, error |-> Undefined,
     customPrompt |-> Undefined]

\* newQueueItem of handleUseResultAsInput: new File([item.resultBlob], ...)
NewQueueItem(id, item, timestamp) ==
    [id |-> id, file |-> item.resultBlob, secondaryFile |-> Undefined,
     status |-> IDLE,
     lastActivityTimestamp |-> timestamp, isRetry |-> FALSE,
     resultBlob |-> Undefined, error |-> Undefined,
     customPrompt |-> item.customPrompt]

\* handleUseResultAsInput(item) putting the new item in front
UseResultAsInputInFront(fs, item, id, timestamp) ==
    IF item.resultBlob = Undefined
    THEN fs
    ELSE <<NewQueueItem(id, item, timestamp)>> \o fs

\* handleUseResultAsInput(item) as a function of the list
UseResultAsInput(fs, item, id, timestamp) ==
    IF item.resultBlob = Undefined
    THEN fs
    ELSE fs \o <<NewQueueItem(id, item, timestamp)>>

\* the updater of handleSavePrompt
SavedPrompt(fs, id, newPrompt) ==
    [i \in DOMAIN fs |->
        IF fs[i].id = id THEN [fs[i] EXCEPT !.customPrompt = newPrompt] ELSE fs[i]]

\* .filter(pred) for the predicates the code uses
RECURSIVE FilterStatus(_, _)
FilterStatus(fs, st) ==
    IF fs = <<>> THEN <<>>
    ELSE IF Head(fs).status = st
         THEN <<Head(fs)>> \o FilterStatus(Tail(fs), st)
         ELSE FilterStatus(Tail(fs), st)

RECURSIVE FilterNotId(_, _)
FilterNotId(fs, id) ==
    IF fs = <<>> THEN <<>>
    ELSE IF Head(fs).id # id
         THEN <<Head(fs)>> \o FilterNotId(Tail(fs), id)
         ELSE FilterNotId(Tail(fs), id)

\* the insertion putting an item in front of the items of equal timestamp
RECURSIVE InsertBeforeEqual(_, _)
InsertBeforeEqual(f, sorted) ==
    IF sorted = <<>> THEN <<f>>
    ELSE IF Head(sorted).lastActivityTimestamp > f.lastActivityTimestamp
         THEN <<Head(sorted)>> \o InsertBeforeEqual(f, Tail(sorted))
         ELSE <<f>> \o sorted

\* .sort((a, b) => b.lastActivityTimestamp - a.lastActivityTimestamp):
\* Array.prototype.sort is stable, so this is a stable insertion sort.
RECURSIVE InsertByTimestamp(_, _)
InsertByTimestamp(f, sorted) ==
    IF sorted = <<>> THEN <<f>>
    ELSE IF Head(sorted).lastActivityTimestamp >= f.lastActivityTimestamp
         THEN <<Head(sorted)>> \o InsertByTimestamp(f, Tail(sorted))
         ELSE <<f>> \o sorted

RECURSIVE SortByTimestampDesc(_)
SortByTimestampDesc(fs) ==
    IF fs = <<>> THEN <<>>
    ELSE LET rest == SortByTimestampDesc(SubSeq(fs, 1, Len(fs) - 1))
         IN  InsertByTimestamp(fs[Len(fs)], rest)

\* pendingFiles taking IDLE items as well
IsPendingOrIdle(f) == f.status = PENDING \/ f.status = IDLE
PendingFilesWithIdle(fs) == SortByTimestampDesc(SelectSeq(fs, IsPendingOrIdle))

\* pendingFiles without the sort of line 319
PendingFilesUnsorted(fs) == FilterStatus(fs, PENDING)

PendingFiles(fs)    == SortByTimestampDesc(FilterStatus(fs, PENDING))
ProcessingFiles(fs) == FilterStatus(fs, PROCESSING)

\* MAX_CONCURRENCY with the limit taken whether or not concurrency is enabled
MaxConcurrencyUnconditional == maxConcurrency

\* MAX_CONCURRENCY one below the limit
MaxConcurrencyMinusOne == IF enableConcurrency THEN maxConcurrency - 1 ELSE 1

\* MAX_CONCURRENCY with the comparison of line 334 off by one
MaxConcurrencyPlusOne == IF enableConcurrency THEN maxConcurrency + 1 ELSE 1

\* const MAX_CONCURRENCY = isConcurrent ? limit : 1
MAX_CONCURRENCY == IF enableConcurrency THEN maxConcurrency ELSE 1

\* the mark applied without the test of the id
MarkProcessingAll(fs, id) ==
    [i \in DOMAIN fs |-> [fs[i] EXCEPT !.status = PROCESSING, !.error = Undefined]]

\* setFiles(prev => prev.map(f => f.id === id ? {...f, status: PROCESSING, error: undefined} : f))
MarkProcessing(fs, id) ==
    [i \in DOMAIN fs |->
        IF fs[i].id = id
        THEN [fs[i] EXCEPT !.status = PROCESSING, !.error = Undefined]
        ELSE fs[i]]

\* the record processSingleFile returns on success
UpdatedFile(fileItem, result) ==
    [fileItem EXCEPT !.status = COMPLETED, !.resultBlob = result,
                     !.error = Undefined]

\* the success write-back storing the result alone
WriteSuccessResultOnly(fs, updatedFile) ==
    [i \in DOMAIN fs |->
        IF fs[i].id = updatedFile.id
        THEN [fs[i] EXCEPT !.resultBlob = updatedFile.resultBlob]
        ELSE fs[i]]

\* the success write-back putting the record back when its id is gone
WriteSuccessUpsert(fs, updatedFile) ==
    IF \E i \in DOMAIN fs : fs[i].id = updatedFile.id
    THEN [i \in DOMAIN fs |->
             IF fs[i].id = updatedFile.id THEN updatedFile ELSE fs[i]]
    ELSE fs \o <<updatedFile>>

\* setFiles(prev => prev.map(f => f.id === updatedFile.id ? updatedFile : f))
WriteSuccess(fs, updatedFile) ==
    [i \in DOMAIN fs |->
        IF fs[i].id = updatedFile.id THEN updatedFile ELSE fs[i]]

\* error.message || "Unknown error"
ErrorMessage(message) == IF message = "" THEN "Unknown error" ELSE message

\* the failure write-back without status: FAILED
WriteFailureKeepsStatus(fs, id, message) ==
    [i \in DOMAIN fs |->
        IF fs[i].id = id
        THEN [fs[i] EXCEPT !.error = ErrorMessage(message)]
        ELSE fs[i]]

\* setFiles(prev => prev.map(f => f.id === fileItem.id ? {...f, status: FAILED, error: ...} : f))
WriteFailure(fs, id, message) ==
    [i \in DOMAIN fs |->
        IF fs[i].id = id
        THEN [fs[i] EXCEPT !.status = FAILED, !.error = ErrorMessage(message)]
        ELSE fs[i]]

\* the updater of startProcessing taking IDLE items alone
StartedFilesIdleOnly(fs) ==
    [i \in DOMAIN fs |->
        IF fs[i].status = IDLE
        THEN [fs[i] EXCEPT !.status = PENDING, !.error = Undefined]
        ELSE fs[i]]

\* the updater of startProcessing
StartedFiles(fs) ==
    [i \in DOMAIN fs |->
        IF fs[i].status = IDLE \/ fs[i].status = FAILED
        THEN [fs[i] EXCEPT !.status = PENDING, !.error = Undefined]
        ELSE fs[i]]

\* the updater of handleRegenerate without resultBlob: undefined
RegeneratedFilesKeepResult(fs, id, timestamp) ==
    [i \in DOMAIN fs |->
        IF fs[i].id = id
        THEN [fs[i] EXCEPT !.status = PENDING, !.error = Undefined,
                           !.isRetry = TRUE,
                           !.lastActivityTimestamp = timestamp]
        ELSE fs[i]]

\* the updater of handleRegenerate appending the reset record as one more
\* item
RegeneratedFilesAppended(fs, id, timestamp) ==
    IF id \in Ids(fs)
    THEN fs \o <<[(fs[CHOOSE i \in DOMAIN fs : fs[i].id = id])
                     EXCEPT !.status = PENDING, !.resultBlob = Undefined,
                            !.error = Undefined, !.isRetry = TRUE,
                            !.lastActivityTimestamp = timestamp]>>
    ELSE fs

\* the updater of handleRegenerate
RegeneratedFiles(fs, id, timestamp) ==
    [i \in DOMAIN fs |->
        IF fs[i].id = id
        THEN [fs[i] EXCEPT !.status = PENDING, !.resultBlob = Undefined,
                           !.error = Undefined, !.isRetry = TRUE,
                           !.lastActivityTimestamp = timestamp]
        ELSE fs[i]]

\* maxAttempts without the test of currentAutoRetry
MaxAttemptsUnconditional(currentAutoRetry) == 3

\* const maxAttempts = currentAutoRetry ? 3 : 1
MaxAttempts(currentAutoRetry) == IF currentAutoRetry THEN 3 ELSE 1

\* ------------------------------------------------------------------ Init
Init ==
    /\ apiKey = FALSE
    /\ files = <<>>
    /\ filesRef = <<>>
    /\ isProcessing = FALSE
    /\ isProcessingSeen = FALSE
    /\ abort = FALSE
    /\ autoRetry = FALSE
    /\ enableConcurrency = TRUE
    /\ maxConcurrency = 2
    /\ now = 0
    /\ nextId = 1
    /\ queueTimers = 0
    /\ loops = 0
    /\ workers = EmptyBag
    /\ customPromptTemplate = <<Placeholder>>

\* ---------------------------------------------------------------- commit
\* The commit that follows an update: the component re-renders, so the
\* handlers close over the new isProcessing, and the effect of lines 46-48
\* copies the list into filesRef.
Committed ==
    /\ filesRef' = files'
    /\ isProcessingSeen' = isProcessing'

\* -------------------------------------------------------- user operations
\* <ApiKeyChecker onReady={(key) => setApiKey(key)} />; nothing else is
\* rendered until a key is there.
SetApiKey ==
    /\ ~apiKey
    /\ apiKey' = TRUE
    /\ UNCHANGED <<files, filesRef, isProcessing, isProcessingSeen, abort,
                   settings, now, nextId, queueTimers, loops, workers>>

\* addFilesToQueue with n image files, Date.now() reading timestamp
AddFilesToQueue(n, timestamp) ==
    /\ apiKey
    /\ nextId + n - 1 <= MaxTasks
    /\ now' = timestamp
    /\ LET newFiles == [k \in 1..n |-> NewFile(nextId + k - 1, timestamp, Undefined)]
       IN  files' = files \o newFiles
    /\ nextId' = nextId + n
    /\ UNCHANGED <<apiKey, isProcessing, abort, settings, queueTimers, loops,
                   workers>>
    /\ Committed

\* addFilesToQueue with one image file of the given name
AddNamedFileToQueue(name, timestamp) ==
    /\ apiKey
    /\ nextId <= MaxNamed
    /\ now' = timestamp
    /\ files' = files \o <<[NewFile(nextId, timestamp, Undefined) EXCEPT !.file = name]>>
    /\ nextId' = nextId + 1
    /\ UNCHANGED <<apiKey, isProcessing, abort, settings, queueTimers, loops,
                   workers>>
    /\ Committed

\* addDualFilesToQueue with the dropped files incomingFiles, Date.now()
\* reading timestamp
AddDualFilesToQueue(incomingFiles, timestamp) ==
    /\ apiKey
    /\ LET newQueueItems ==
               NewQueueItems(ImageFiles(incomingFiles), 1, nextId, timestamp)
       IN  /\ nextId + Len(newQueueItems) - 1 <= MaxTasks
           /\ files' = files \o newQueueItems
           /\ nextId' = nextId + Len(newQueueItems)
    /\ now' = timestamp
    /\ UNCHANGED <<apiKey, isProcessing, abort, settings, queueTimers, loops,
                   workers>>
    /\ Committed

\* handleRemove, from the remove button of a rendered card
HandleRemove(id) ==
    /\ apiKey
    /\ id \in Ids(filesRef)
    /\ files' = FilterNotId(files, id)
    /\ UNCHANGED <<apiKey, isProcessing, abort, settings, now, nextId,
                   queueTimers, loops, workers>>
    /\ Committed

\* clearAll, from the "Clear All" button, which is rendered while the list
\* is not empty and isProcessing is false; the handler tests the isProcessing
\* it closed over again and then sets the list to []
ClearAll ==
    /\ apiKey
    /\ Len(filesRef) > 0
    /\ ~isProcessingSeen
    /\ files' = <<>>
    /\ UNCHANGED <<apiKey, isProcessing, abort, settings, now, nextId,
                   queueTimers, loops, workers>>
    /\ Committed

\* setTimeout(() => processQueue(), 0): processQueue returns at line 306 when
\* the isProcessing it closed over is true, so only a call that closed over
\* false is kept as a pending timer.
ScheduledQueue == IF isProcessingSeen THEN queueTimers ELSE queueTimers + 1

\* startProcessing: the button is rendered while !isProcessing, and enabled
\* while files.length > 0
StartProcessing ==
    /\ apiKey
    /\ ~isProcessingSeen
    /\ Len(filesRef) # 0
    /\ ScheduledQueue <= MaxLoops
    /\ files' = StartedFiles(files)
    /\ queueTimers' = ScheduledQueue
    /\ UNCHANGED <<apiKey, isProcessing, abort, settings, now, nextId, loops,
                   workers>>
    /\ Committed

\* handleRegenerate, from the button every rendered card has, Date.now()
\* reading timestamp
HandleRegenerate(id, timestamp) ==
    /\ apiKey
    /\ id \in Ids(filesRef)
    /\ ScheduledQueue <= MaxLoops
    /\ now' = timestamp
    /\ files' = RegeneratedFiles(files, id, timestamp)
    /\ queueTimers' = ScheduledQueue
    /\ UNCHANGED <<apiKey, isProcessing, abort, settings, nextId, loops,
                   workers>>
    /\ Committed

\* handleUseResultAsInput(item), from the button a card has while it is
\* COMPLETED with a resultBlob; item is the record as rendered, Date.now()
\* reading timestamp, crypto.randomUUID() giving nextId
HandleUseResultAsInput(id, timestamp) ==
    /\ apiKey
    /\ \E i \in DOMAIN filesRef :
          /\ filesRef[i].id = id
          /\ filesRef[i].status = COMPLETED
          /\ filesRef[i].resultBlob # Undefined
          /\ files' = UseResultAsInput(files, filesRef[i], nextId, timestamp)
    /\ nextId <= MaxTasks
    /\ now' = timestamp
    /\ nextId' = nextId + 1
    /\ UNCHANGED <<apiKey, isProcessing, abort, settings, queueTimers, loops,
                   workers>>
    /\ Committed

\* handleEditPrompt(file) on a rendered card, then handleSavePrompt(newPrompt)
\* from the modal it opens
HandleSavePrompt(id, newPrompt) ==
    /\ apiKey
    /\ id \in Ids(filesRef)
    /\ files' = SavedPrompt(files, id, newPrompt)
    /\ UNCHANGED <<apiKey, isProcessing, abort, settings, now, nextId,
                   queueTimers, loops, workers>>
    /\ Committed

\* stopProcessing: the button is rendered while isProcessing
StopProcessing ==
    /\ apiKey
    /\ isProcessingSeen
    /\ abort' = TRUE
    /\ UNCHANGED <<apiKey, files, filesRef, isProcessing, isProcessingSeen,
                   settings, now, nextId, queueTimers, loops, workers>>

\* the settings check boxes, and the maxConcurrency input, which is shown
\* while enableConcurrency: Math.max(1, parseInt(value) || 1)
SetAutoRetry ==
    /\ apiKey
    /\ autoRetry' = ~autoRetry
    /\ UNCHANGED <<apiKey, files, filesRef, isProcessing, isProcessingSeen,
                   abort, enableConcurrency, maxConcurrency, now, nextId,
                   queueTimers, loops, workers, customPromptTemplate>>

SetEnableConcurrency ==
    /\ apiKey
    /\ enableConcurrency' = ~enableConcurrency
    /\ UNCHANGED <<apiKey, files, filesRef, isProcessing, isProcessingSeen,
                   abort, autoRetry, maxConcurrency, now, nextId, queueTimers,
                   loops, workers, customPromptTemplate>>

\* the template field of the settings and the save of the template modal:
\* setCustomPromptTemplate(value)
SetCustomPromptTemplate(template) ==
    /\ apiKey
    /\ template # customPromptTemplate
    /\ customPromptTemplate' = template
    /\ UNCHANGED <<apiKey, files, filesRef, isProcessing, isProcessingSeen,
                   abort, autoRetry, enableConcurrency, maxConcurrency, now,
                   nextId, queueTimers, loops, workers>>

SetMaxConcurrency(n) ==
    /\ apiKey
    /\ enableConcurrency
    /\ n # maxConcurrency
    /\ maxConcurrency' = Max(1, n)
    /\ UNCHANGED <<apiKey, files, filesRef, isProcessing, isProcessingSeen,
                   abort, autoRetry, enableConcurrency, now, nextId,
                   queueTimers, loops, workers, customPromptTemplate>>

\* handleLogout: setApiKey(null), then window.location.reload() starts the
\* application again
HandleLogout ==
    /\ apiKey
    /\ apiKey' = FALSE
    /\ files' = <<>>
    /\ filesRef' = <<>>
    /\ isProcessing' = FALSE
    /\ isProcessingSeen' = FALSE
    /\ abort' = FALSE
    /\ autoRetry' = FALSE
    /\ enableConcurrency' = TRUE
    /\ maxConcurrency' = 2
    /\ queueTimers' = 0
    /\ loops' = 0
    /\ workers' = EmptyBag
    /\ customPromptTemplate' = <<Placeholder>>
    /\ UNCHANGED <<now, nextId>>

\* handleLogout in two turns, for the time the page takes to unload: first
\* setApiKey(null) and its commit (the effect of lines 41-43 clears
\* apiKeyRef.current and the ApiKeyChecker replaces the controls) ...
SetApiKeyNull ==
    /\ apiKey
    /\ apiKey' = FALSE
    /\ UNCHANGED <<files, filesRef, isProcessing, isProcessingSeen, abort,
                   settings, now, nextId, queueTimers, loops, workers>>

\* the state of a page that has just been loaded
Reloaded ==
    /\ ~apiKey /\ files = <<>> /\ filesRef = <<>>
    /\ ~isProcessing /\ ~isProcessingSeen /\ ~abort
    /\ ~autoRetry /\ enableConcurrency /\ maxConcurrency = 2
    /\ queueTimers = 0 /\ loops = 0 /\ workers = EmptyBag
    /\ customPromptTemplate = <<Placeholder>>

\* ... then window.location.reload() takes effect: timers, loops and workers
\* of the old page are gone
Reload ==
    /\ ~apiKey
    /\ ~Reloaded
    /\ files' = <<>>
    /\ filesRef' = <<>>
    /\ isProcessing' = FALSE
    /\ isProcessingSeen' = FALSE
    /\ abort' = FALSE
    /\ autoRetry' = FALSE
    /\ enableConcurrency' = TRUE
    /\ maxConcurrency' = 2
    /\ queueTimers' = 0
    /\ loops' = 0
    /\ workers' = EmptyBag
    /\ customPromptTemplate' = <<Placeholder>>
    /\ UNCHANGED <<apiKey, now, nextId>>

\* ----------------------------------------------------------- the workers
\* processSingleFile up to its first await, called from processFileBackground
\* fileItem.file.name.replace(/\.[^/.]+$/, ""): the last "." and what follows
\* it are cut off when something follows it
FileNameWithoutExt(name) ==
    LET dots == {i \in DOMAIN name : name[i] = "."}
    IN  IF dots = {} THEN name
        ELSE LET last == CHOOSE i \in dots : \A j \in dots : j <= i
             IN  IF last = Len(name) THEN name ELSE SubSeq(name, 1, last - 1)

\* GetSubstitution of String.prototype.replace for a string pattern: in the
\* replacement "$$" stands for "$" and "$&" for the matched text
RECURSIVE GetSubstitution(_, _)
GetSubstitution(matched, replacement) ==
    IF replacement = <<>> THEN <<>>
    ELSE IF Head(replacement) = "$" /\ Len(replacement) >= 2 /\ replacement[2] = "$"
         THEN <<"$">> \o GetSubstitution(matched, Tail(Tail(replacement)))
    ELSE IF Head(replacement) = "$" /\ Len(replacement) >= 2 /\ replacement[2] = "&"
         THEN matched \o GetSubstitution(matched, Tail(Tail(replacement)))
    ELSE <<Head(replacement)>> \o GetSubstitution(matched, Tail(replacement))

\* str.replace(searchValue, replaceValue) for a string searchValue that is
\* one token: the first occurrence is replaced
Replace(str, searchValue, replaceValue) ==
    LET found == {i \in DOMAIN str : str[i] = searchValue}
    IN  IF found = {} THEN str
        ELSE LET pos == CHOOSE i \in found : \A j \in found : i <= j
             IN  SubSeq(str, 1, pos - 1)
                     \o GetSubstitution(<<searchValue>>, replaceValue)
                     \o SubSeq(str, pos + 1, Len(str))

\* finalPrompt of lines 239-246; undefined and "" are falsy
FinalPrompt(fileItem) ==
    IF fileItem.customPrompt # Undefined /\ fileItem.customPrompt # ""
    THEN Chars(fileItem.customPrompt)
    ELSE Replace(customPromptTemplate, Placeholder,
                 FileNameWithoutExt(Chars(fileItem.file)))

NewWorker(fileItem) ==
    [fileItem         |-> fileItem,
     finalPrompt      |-> FinalPrompt(fileItem),
     currentAutoRetry |-> autoRetry,
     attempts         |-> 1,
     phase            |-> "call",
     lastError        |-> Undefined]

\* throw lastError || new Error("Processing failed")
Thrown(lastError) == IF lastError = Undefined THEN "Processing failed" ELSE lastError

InFlight == BagToSet(workers)
Without(w) == workers (-) SetToBag({w})

\* translateImageWithGemini, fetch and blob() all resolve: processSingleFile
\* returns the updated record and processFileBackground writes it back
ServiceSuccess(w, result) ==
    /\ w.phase = "call"
    /\ files' = WriteSuccess(files, UpdatedFile(w.fileItem, result))
    /\ workers' = Without(w)
    /\ UNCHANGED <<apiKey, isProcessing, abort, settings, now, nextId,
                   queueTimers, loops>>
    /\ Committed

\* the catch of line 276: back off when attempts remain and the stop flag is
\* not set; otherwise the while loop ends (attempts used up, or the break of
\* line 259) and processFileBackground writes the failure back
RetryAllowed(w) == w.attempts < MaxAttempts(w.currentAutoRetry) /\ ~abort

ServiceFailure(w, message) ==
    /\ w.phase = "call"
    /\ IF RetryAllowed(w)
       THEN /\ workers' = Without(w) (+)
                   SetToBag({[w EXCEPT !.phase = "backoff", !.lastError = message]})
            /\ files' = files
       ELSE /\ workers' = Without(w)
            /\ files' = WriteFailure(files, w.fileItem.id, Thrown(message))
    /\ UNCHANGED <<apiKey, isProcessing, abort, settings, now, nextId,
                   queueTimers, loops>>
    /\ Committed

\* the 1500 ms timer of line 281 fires: back to the top of the while loop
BackoffEnd(w) ==
    /\ w.phase = "backoff"
    /\ IF abort
       THEN /\ workers' = Without(w)
            /\ files' = WriteFailure(files, w.fileItem.id, Thrown(w.lastError))
       ELSE /\ workers' = Without(w) (+)
                   SetToBag({[w EXCEPT !.phase = "call", !.attempts = @ + 1]})
            /\ files' = files
    /\ UNCHANGED <<apiKey, isProcessing, abort, settings, now, nextId,
                   queueTimers, loops>>
    /\ Committed

\* --------------------------------------------------------- the scheduler
\* processFileBackground with the mark of line 338 applied after the
\* worker's immediate failure
SpawnMarkLast(marked, fileToProcess) ==
    IF apiKey
    THEN /\ files' = marked
         /\ workers' = workers (+) SetToBag({NewWorker(fileToProcess)})
    ELSE /\ files' = MarkProcessing(
                         WriteFailure(files, fileToProcess.id, "API Key is missing"),
                         fileToProcess.id)
         /\ workers' = workers

\* processFileBackground with a processSingleFile that does not test the key
SpawnWithoutKeyCheck(marked, fileToProcess) ==
    /\ files' = marked
    /\ workers' = workers (+) SetToBag({NewWorker(fileToProcess)})

\* processFileBackground(fileToProcess) up to its first await, and the
\* microtask that follows when processSingleFile throws at once
Spawn(marked, fileToProcess) ==
    IF apiKey
    THEN /\ files' = marked
         /\ workers' = workers (+) SetToBag({NewWorker(fileToProcess)})
    ELSE /\ files' = WriteFailure(marked, fileToProcess.id, "API Key is missing")
         /\ workers' = workers

\* the loop body with the exit test of line 325 on pendingFiles alone
IterateExitsOnNoPending(starting) ==
    LET currentFiles    == filesRef
        pendingFiles    == PendingFiles(currentFiles)
        processingFiles == ProcessingFiles(currentFiles)
        alive           == IF starting THEN loops + 1 ELSE loops
    IN  IF Len(pendingFiles) = 0
        THEN \* break; setIsProcessing(false)
             /\ isProcessing' = FALSE
             /\ loops' = alive - 1
             /\ UNCHANGED <<files, workers>>
        ELSE IF Len(processingFiles) < MAX_CONCURRENCY /\ Len(pendingFiles) > 0
        THEN \* mark, spawn, then sleep 100 ms or 10 s
             /\ BagCardinality(workers) < MaxWorkers
             /\ Spawn(MarkProcessing(files, pendingFiles[1].id), pendingFiles[1])
             /\ isProcessing' = (starting \/ isProcessing)
             /\ loops' = alive
        ELSE \* sleep 500 ms
             /\ isProcessing' = (starting \/ isProcessing)
             /\ loops' = alive
             /\ UNCHANGED <<files, workers>>

\* one pass of the body of `while (true)` after the stop flag check; starting
\* is TRUE for the pass processQueue makes right after setIsProcessing(true)
Iterate(starting) ==
    LET currentFiles    == filesRef
        pendingFiles    == PendingFiles(currentFiles)
        processingFiles == ProcessingFiles(currentFiles)
        alive           == IF starting THEN loops + 1 ELSE loops
    IN  IF Len(pendingFiles) = 0 /\ Len(processingFiles) = 0
        THEN \* break; setIsProcessing(false)
             /\ isProcessing' = FALSE
             /\ loops' = alive - 1
             /\ UNCHANGED <<files, workers>>
        ELSE IF Len(processingFiles) < MAX_CONCURRENCY /\ Len(pendingFiles) > 0
        THEN \* mark, spawn, then sleep 100 ms or 10 s
             /\ BagCardinality(workers) < MaxWorkers
             /\ Spawn(MarkProcessing(files, pendingFiles[1].id), pendingFiles[1])
             /\ isProcessing' = (starting \/ isProcessing)
             /\ loops' = alive
        ELSE \* sleep 500 ms
             /\ isProcessing' = (starting \/ isProcessing)
             /\ loops' = alive
             /\ UNCHANGED <<files, workers>>

\* a pending processQueue() call runs: setIsProcessing(true), the stop flag
\* is reset and the first pass is made
ProcessQueue ==
    /\ queueTimers > 0
    /\ queueTimers' = queueTimers - 1
    /\ loops < MaxLoops
    /\ abort' = FALSE
    /\ Iterate(TRUE)
    /\ UNCHANGED <<apiKey, settings, now, nextId>>
    /\ Committed

\* a loop pass without the stop flag check of line 312
LoopIterationDeaf ==
    /\ loops > 0
    /\ Iterate(FALSE)
    /\ UNCHANGED <<apiKey, abort, settings, now, nextId, queueTimers>>
    /\ Committed

\* a sleeping loop wakes up: `if (abortControllerRef.current) break`, then a pass
LoopIteration ==
    /\ loops > 0
    /\ IF abort
       THEN /\ isProcessing' = FALSE
            /\ loops' = loops - 1
            /\ UNCHANGED <<files, workers>>
       ELSE Iterate(FALSE)
    /\ UNCHANGED <<apiKey, abort, settings, now, nextId, queueTimers>>
    /\ Committed

\* ------------------------------------------------------------------ Next
\* Spec is the whole program.  The parts of it that are explored:
\*   SpecQueue  auto-retry left at its default (off), so that every worker
\*              makes one attempt; no clone, no prompt edit
\*   SpecRetry  no Regenerate, no clone, no prompt edit; SpecRetryFair is
\*              SpecRetry with the service answering every call
\*   SpecDrain  one run at a time: but for Stop the user acts only between
\*              runs; timers fire and the service answers
\*   SpecLogout the old page going on after Logout until the reload takes
\*              effect (everywhere else Logout and reload are one step)
\*   SpecUpload single and paired upload and removal, the queue not started
\*   SpecClone  clone and prompt edit; no Regenerate, auto-retry and the
\*              concurrency controls left at their defaults
\* the sequences of at most MaxDrop dropped files
Drops == UNION {[1..n -> DroppedFiles] : n \in 0..MaxDrop}

Next ==
    \/ SetApiKey
    \/ \E n \in 1..MaxTasks : \E timestamp \in now..MaxTime : AddFilesToQueue(n, timestamp)
    \/ \E incomingFiles \in Drops : \E timestamp \in now..MaxTime : AddDualFilesToQueue(incomingFiles, timestamp)
    \/ \E id \in 1..MaxTasks : HandleRemove(id)
    \/ ClearAll
    \/ StartProcessing
    \/ \E id \in 1..MaxTasks : \E timestamp \in now..MaxTime : HandleRegenerate(id, timestamp)
    \/ \E id \in 1..MaxTasks : \E timestamp \in now..MaxTime : HandleUseResultAsInput(id, timestamp)
    \/ \E id \in 1..MaxTasks : \E newPrompt \in Prompts : HandleSavePrompt(id, newPrompt)
    \/ StopProcessing
    \/ SetAutoRetry
    \/ SetEnableConcurrency
    \/ \E n \in 1..MaxLimit : SetMaxConcurrency(n)
    \/ \E template \in Templates : SetCustomPromptTemplate(template)
    \/ HandleLogout
    \/ ProcessQueue
    \/ LoopIteration
    \/ \E w \in InFlight : \E result \in Results : ServiceSuccess(w, result)
    \/ \E w \in InFlight : \E message \in ServiceErrors : ServiceFailure(w, message)
    \/ \E w \in InFlight : BackoffEnd(w)

Spec == Init /\ [][Next]_vars

NextQueue ==
    \/ SetApiKey
    \/ \E n \in 1..MaxTasks : \E timestamp \in now..MaxTime : AddFilesToQueue(n, timestamp)
    \/ \E id \in 1..MaxTasks : HandleRemove(id)
    \/ StartProcessing
    \/ \E id \in 1..MaxTasks : \E timestamp \in now..MaxTime : HandleRegenerate(id, timestamp)
    \/ StopProcessing
    \/ SetEnableConcurrency
    \/ \E n \in 1..MaxLimit : SetMaxConcurrency(n)
    \/ HandleLogout
    \/ ProcessQueue
    \/ LoopIteration
    \/ \E w \in InFlight : \E result \in Results : ServiceSuccess(w, result)
    \/ \E w \in InFlight : \E message \in ServiceErrors : ServiceFailure(w, message)

SpecQueue == Init /\ [][NextQueue]_vars

NextRetry ==
    \/ SetApiKey
    \/ \E n \in 1..MaxTasks : \E timestamp \in now..MaxTime : AddFilesToQueue(n, timestamp)
    \/ \E id \in 1..MaxTasks : HandleRemove(id)
    \/ StartProcessing
    \/ StopProcessing
    \/ SetAutoRetry
    \/ SetEnableConcurrency
    \/ \E n \in 1..MaxLimit : SetMaxConcurrency(n)
    \/ HandleLogout
    \/ ProcessQueue
    \/ LoopIteration
    \/ \E w \in InFlight : \E result \in Results : ServiceSuccess(w, result)
    \/ \E w \in InFlight : \E message \in ServiceErrors : ServiceFailure(w, message)
    \/ \E w \in InFlight : BackoffEnd(w)

SpecRetry == Init /\ [][NextRetry]_vars

\* what a worker of the task id does once the service, or its backoff timer,
\* answers
WorkerStep(id) ==
    \E w \in InFlight :
        /\ w.fileItem.id = id
        /\ \/ \E result \in Results : ServiceSuccess(w, result)
           \/ \E message \in ServiceErrors : ServiceFailure(w, message)
           \/ BackoffEnd(w)

\* SpecRetry with a service that answers every call and timers that fire:
\* every worker takes its next step in the end
SpecRetryFair ==
    SpecRetry /\ \A id \in 1..MaxTasks : WF_vars(WorkerStep(id))

\* The program with a user who, but for Stop, acts only between runs: while
\* no processQueue call is pending, no loop runs and no worker is in flight.
Quiet == queueTimers = 0 /\ loops = 0 /\ workers = EmptyBag

NextDrain ==
    \/ SetApiKey
    \/ Quiet /\ \E n \in 1..MaxTasks : \E timestamp \in now..MaxTime : AddFilesToQueue(n, timestamp)
    \/ Quiet /\ \E id \in 1..MaxTasks : HandleRemove(id)
    \/ Quiet /\ StartProcessing
    \/ StopProcessing
    \/ Quiet /\ SetAutoRetry
    \/ Quiet /\ SetEnableConcurrency
    \/ Quiet /\ \E n \in 1..MaxLimit : SetMaxConcurrency(n)
    \/ ProcessQueue
    \/ LoopIteration
    \/ \E w \in InFlight : \E result \in Results : ServiceSuccess(w, result)
    \/ \E w \in InFlight : \E message \in ServiceErrors : ServiceFailure(w, message)
    \/ \E w \in InFlight : BackoffEnd(w)

\* timers fire, a sleeping loop wakes up and the service answers every call
SpecDrain ==
    /\ Init /\ [][NextDrain]_vars
    /\ WF_vars(ProcessQueue)
    /\ WF_vars(LoopIteration)
    /\ \A id \in 1..MaxTasks : WF_vars(WorkerStep(id))

\* The program with the page taking time to unload after Logout: the timers,
\* loops and workers of the old page go on until the reload takes effect.
NextLogout ==
    \/ Reloaded /\ SetApiKey
    \/ \E n \in 1..MaxTasks : \E timestamp \in now..MaxTime : AddFilesToQueue(n, timestamp)
    \/ StartProcessing
    \/ SetAutoRetry
    \/ SetApiKeyNull
    \/ Reload
    \/ ProcessQueue
    \/ LoopIteration
    \/ \E w \in InFlight : \E result \in Results : ServiceSuccess(w, result)
    \/ \E w \in InFlight : \E message \in ServiceErrors : ServiceFailure(w, message)
    \/ \E w \in InFlight : BackoffEnd(w)

SpecLogout == Init /\ [][NextLogout]_vars

\* The two upload areas, with the queue never started.
NextUpload ==
    \/ SetApiKey
    \/ \E n \in 1..MaxTasks : \E timestamp \in now..MaxTime : AddFilesToQueue(n, timestamp)
    \/ \E incomingFiles \in Drops : \E timestamp \in now..MaxTime : AddDualFilesToQueue(incomingFiles, timestamp)
    \/ \E id \in 1..MaxTasks : HandleRemove(id)
    \/ HandleLogout

SpecUpload == Init /\ [][NextUpload]_vars

NextClone ==
    \/ SetApiKey
    \/ \E n \in 1..MaxTasks : \E timestamp \in now..MaxTime : AddFilesToQueue(n, timestamp)
    \/ \E id \in 1..MaxTasks : HandleRemove(id)
    \/ StartProcessing
    \/ \E id \in 1..MaxTasks : \E timestamp \in now..MaxTime : HandleUseResultAsInput(id, timestamp)
    \/ \E id \in 1..MaxTasks : \E newPrompt \in Prompts : HandleSavePrompt(id, newPrompt)
    \/ StopProcessing
    \/ HandleLogout
    \/ ProcessQueue
    \/ LoopIteration
    \/ \E w \in InFlight : \E result \in Results : ServiceSuccess(w, result)
    \/ \E w \in InFlight : \E message \in ServiceErrors : ServiceFailure(w, message)

SpecClone == Init /\ [][NextClone]_vars

\* The program with a user who uploads, starts, stops and clears the list,
\* with the settings left as they are at the start.
NextClear ==
    \/ SetApiKey
    \/ \E n \in 1..MaxTasks : \E timestamp \in now..MaxTime : AddFilesToQueue(n, timestamp)
    \/ ClearAll
    \/ StartProcessing
    \/ StopProcessing
    \/ ProcessQueue
    \/ LoopIteration
    \/ \E w \in InFlight : \E result \in Results : ServiceSuccess(w, result)
    \/ \E w \in InFlight : \E message \in ServiceErrors : ServiceFailure(w, message)

SpecClear == Init /\ [][NextClear]_vars

\* The program with a user who picks files by name, edits the template and
\* the prompt of a card, and starts the queue.
NextPrompt ==
    \/ SetApiKey
    \/ \E name \in NamedFiles : \E timestamp \in now..MaxTime : AddNamedFileToQueue(name, timestamp)
    \/ \E template \in Templates : SetCustomPromptTemplate(template)
    \/ \E id \in 1..MaxTasks : \E newPrompt \in Overrides : HandleSavePrompt(id, newPrompt)
    \/ StartProcessing
    \/ ProcessQueue
    \/ LoopIteration
    \/ \E w \in InFlight : \E result \in Results : ServiceSuccess(w, result)
    \/ \E w \in InFlight : \E message \in ServiceErrors : ServiceFailure(w, message)

SpecPrompt == Init /\ [][NextPrompt]_vars

\* ------------------------------------------------------------ properties
Absent == "absent"

IdSeq(fs) == [i \in DOMAIN fs |-> fs[i].id]

RecordOf(fs, id) == fs[CHOOSE i \in DOMAIN fs : fs[i].id = id]

StatusOf(fs, id) == IF id \in Ids(fs) THEN RecordOf(fs, id).status ELSE Absent

NumProcessing(fs) == Cardinality({i \in DOMAIN fs : fs[i].status = PROCESSING})

\* the effective concurrency ceiling as the specification words it
Ceiling == IF enableConcurrency THEN maxConcurrency ELSE 1

\* the retry budget as the specification words it
Budget(w) == IF w.currentAutoRetry THEN 3 ELSE 1

Outstanding == BagCardinality(workers)

WorkersOf(id) == {w \in InFlight : w.fileItem.id = id}

\* a step that dispatches the task id
Dispatched(id) == StatusOf(files, id) = PENDING /\ StatusOf(files', id) = PROCESSING

\* C1: for every task id at most one worker is in flight at any time.
NoDoubleDispatch ==
    \A id \in 1..MaxTasks :
        /\ Cardinality(WorkersOf(id)) <= 1
        /\ \A w \in WorkersOf(id) : CopiesIn(w, workers) = 1

\* C2: while concurrency stays disabled the number of Processing tasks never
\* rises above one, whatever is Pending and whatever the user does.
SerialWhileDisabled ==
    [][(~enableConcurrency /\ ~enableConcurrency' /\ NumProcessing(files) <= 1)
        => NumProcessing(files') <= 1]_vars

SerialWitness ==
    /\ ~enableConcurrency
    /\ loops > 0 /\ ~abort
    /\ \E i, j \in DOMAIN files :
          files[i].status = PROCESSING /\ files[j].status = PENDING

\* C3: a task is dispatched only in a step that starts with fewer Processing
\* tasks than the ceiling, and while concurrency is enabled with maxConcurrency
\* held at N the number of Processing tasks, once at most N, stays at most N.
ProcessingWithinCeiling ==
    [][/\ (\E id \in 1..MaxTasks : Dispatched(id)) => NumProcessing(files) < Ceiling
       /\ (/\ enableConcurrency /\ enableConcurrency'
           /\ maxConcurrency' = maxConcurrency
           /\ NumProcessing(files) <= maxConcurrency)
          => NumProcessing(files') <= maxConcurrency]_vars

CeilingWitness ==
    /\ enableConcurrency /\ maxConcurrency = 1
    /\ loops > 0 /\ ~abort
    /\ \E i, j \in DOMAIN files :
          files[i].status = PROCESSING /\ files[j].status = PENDING

\* C4: a worker is launched only when the workers launched and not yet
\* written back are fewer than the ceiling, so that they never exceed it.
WorkersWithinCeiling ==
    [][Outstanding' > Outstanding => Outstanding < Ceiling]_vars

\* C5: a dispatched task has the largest lastActivityTimestamp of the tasks
\* that are Pending when it is dispatched.
NewestPendingFirst ==
    [][\A id \in 1..MaxTasks :
          Dispatched(id) =>
              \A i \in DOMAIN files :
                  files[i].status = PENDING =>
                      files[i].lastActivityTimestamp
                          <= RecordOf(files, id).lastActivityTimestamp]_vars

\* the newer task was dispatched although the older one comes first in the list
NewestFirstWitness ==
    /\ Len(files) = 2
    /\ files[1].status = PENDING /\ ~files[1].isRetry
    /\ files[2].status = PROCESSING
    /\ files[1].lastActivityTimestamp < files[2].lastActivityTimestamp
    /\ \E w \in InFlight : w.fileItem.id = files[2].id
    /\ Outstanding = 1 /\ MAX_CONCURRENCY = 1

\* C6: while the stop flag stays set no task goes from Pending to Processing;
\* setting the flag changes no record and ends no worker, and a worker that
\* waits for the service can write its result back whether the flag is set
\* or not.
StopHoldsDispatch ==
    /\ [](\A w \in InFlight :
             w.phase = "call" => ENABLED (\E result \in Results : ServiceSuccess(w, result)))
    /\ [][/\ (abort /\ abort') => ~(\E id \in 1..MaxTasks : Dispatched(id))
          /\ (~abort /\ abort') => (files' = files /\ workers' = workers)]_vars

StopWitness ==
    /\ abort /\ loops = 0 /\ ~isProcessing
    /\ \E i, j \in DOMAIN files :
          /\ files[i].status = PENDING
          /\ files[j].status = PROCESSING
          /\ \E w \in InFlight : w.fileItem.id = files[j].id

\* C7: a Completed task has a result and no error, a Failed task an error
\* and no result, an Idle, Pending or Processing task neither.
ResultErrorByStatus ==
    \A i \in DOMAIN files :
        LET f == files[i]
        IN  /\ f.status = COMPLETED => (f.resultBlob # Undefined /\ f.error = Undefined)
            /\ f.status = FAILED => (f.error # Undefined /\ f.resultBlob = Undefined)
            /\ f.status \in {IDLE, PENDING, PROCESSING} =>
                   (f.resultBlob = Undefined /\ f.error = Undefined)

\* C8: every change of a task's status is one of the table: Idle, Failed or
\* Completed to Pending, Pending to Processing, Processing to Completed or
\* Failed.
TransitionTable ==
    [][\A id \in Ids(files) \cap Ids(files') :
          \/ StatusOf(files', id) = StatusOf(files, id)
          \/ <<StatusOf(files, id), StatusOf(files', id)>> \in
                 {<<IDLE, PENDING>>, <<FAILED, PENDING>>, <<COMPLETED, PENDING>>,
                  <<PENDING, PROCESSING>>,
                  <<PROCESSING, COMPLETED>>, <<PROCESSING, FAILED>>}]_vars

\* C9: a worker makes at least one and at most Budget attempts (3 with
\* auto-retry, else 1) and backs off only with attempts left; it gives a
\* failure up to the task only with its budget used or the stop flag set;
\* every record that turns up Completed ends one worker.
RetryBudget ==
    /\ [](\A w \in InFlight :
             /\ w.attempts \in 1..Budget(w)
             /\ w.phase = "backoff" => w.attempts < Budget(w))
    /\ [][/\ \A w \in InFlight :
                (/\ w.phase = "call"
                 /\ workers' = Without(w)
                 /\ StatusOf(files', w.fileItem.id) = FAILED)
                => (w.attempts = Budget(w) \/ abort)
          /\ \A id \in Ids(files) \cap Ids(files') :
                (/\ StatusOf(files', id) = COMPLETED
                 /\ RecordOf(files', id) # RecordOf(files, id))
                => Outstanding' = Outstanding - 1]_vars

\* the third attempt of a worker is under way, while a task whose worker
\* has ended is Failed
ThirdAttemptWitness ==
    /\ \E w \in InFlight :
          w.currentAutoRetry /\ w.attempts = 3 /\ w.phase = "call"
    /\ \E i \in DOMAIN files :
          files[i].status = FAILED /\ WorkersOf(files[i].id) = {}

\* C10: regenerate of a Completed task makes it Pending with result and error
\* cleared; regenerate, dispatch and write-back keep the list of ids as it
\* is, the ids are pairwise different, and a Completed record has a result.
RegenerateKeepsRecord ==
    /\ [](/\ \A i, j \in DOMAIN files : files[i].id = files[j].id => i = j
          /\ \A i \in DOMAIN files :
                files[i].status = COMPLETED => files[i].resultBlob # Undefined)
    /\ [][\A id \in Ids(files) \cap Ids(files') :
             /\ (StatusOf(files, id) = COMPLETED /\ StatusOf(files', id) = PENDING)
                => /\ RecordOf(files', id).resultBlob = Undefined
                   /\ RecordOf(files', id).error = Undefined
                   /\ IdSeq(files') = IdSeq(files)
             /\ StatusOf(files', id) \in {PROCESSING, COMPLETED} \ {StatusOf(files, id)}
                => IdSeq(files') = IdSeq(files)]_vars

\* the one record ever created was regenerated and completed again
RegenerateWitness ==
    /\ nextId = 2 /\ Len(files) = 1
    /\ files[1].id = 1 /\ files[1].isRetry
    /\ files[1].status = COMPLETED /\ files[1].resultBlob # Undefined
    /\ workers = EmptyBag

\* a step that appends one record whose primary input is a result
Cloned ==
    /\ Len(files') = Len(files) + 1
    /\ files'[Len(files')].file \in Results

\* C11: a clone step leaves every existing record as it is and appends one
\* Idle record with a new id, the result of some task of the store as its
\* file and that task's customPrompt, and starts nothing; on a record without
\* a result the handler returns the list as it is; an Idle record leaves Idle
\* only for Pending.
CloneFromResult ==
    /\ [](\A i \in DOMAIN files :
             files[i].resultBlob = Undefined =>
                 UseResultAsInput(files, files[i], nextId, now) = files)
    /\ [][/\ Cloned =>
               LET new == files'[Len(files')]
               IN  /\ SubSeq(files', 1, Len(files)) = files
                   /\ new.id \notin Ids(files)
                   /\ new.status = IDLE /\ ~new.isRetry
                   /\ new.resultBlob = Undefined /\ new.error = Undefined
                   /\ \E i \in DOMAIN files :
                         /\ files[i].resultBlob # Undefined
                         /\ new.file = files[i].resultBlob
                         /\ new.customPrompt = files[i].customPrompt
                   /\ queueTimers' = queueTimers /\ loops' = loops
                   /\ workers' = workers
          /\ \A id \in Ids(files) \cap Ids(files') :
               StatusOf(files, id) = IDLE => StatusOf(files', id) \in {IDLE, PENDING}]_vars

\* a clone of a Completed task that has a prompt override, not started while
\* the scheduler runs
CloneWitness ==
    /\ Len(files) = 2
    /\ files[1].status = COMPLETED /\ files[1].customPrompt \in Prompts
    /\ files[2].file = files[1].resultBlob
    /\ files[2].customPrompt = files[1].customPrompt
    /\ files[2].status = IDLE /\ files[2].id # files[1].id

\* C12: the write-back of a worker whose task has been removed changes
\* nothing in the list, and an id that has left the list never comes back.
StaleWriteDropped ==
    [][/\ (/\ apiKey'
           /\ \E w \in InFlight :
                 workers' = Without(w) /\ w.fileItem.id \notin Ids(files))
          => files' = files
       /\ \A id \in 1..MaxTasks :
             (id < nextId /\ id \notin Ids(files)) => id \notin Ids(files')]_vars

\* a worker is in flight for a task that was removed, next to another task
RemovedInFlightWitness ==
    /\ Len(files) > 0
    /\ \E w \in InFlight : w.fileItem.id \notin Ids(files)

\* C13: a task that is Processing gets Completed or Failed, or is removed,
\* whether the stop flag is set or not; a Failed task has a non-empty error
\* message.
WorkerResolves ==
    /\ [](\A i \in DOMAIN files :
             files[i].status = FAILED => files[i].error \notin {Undefined, ""})
    /\ \A id \in 1..MaxTasks :
          (StatusOf(files, id) = PROCESSING)
              ~> (StatusOf(files, id) \in {COMPLETED, FAILED, Absent})

\* a task failed on a service error without a message, after a stop request
ResolvedWitness ==
    /\ abort /\ loops = 0
    /\ \E i \in DOMAIN files :
          files[i].status = FAILED /\ files[i].error = "Unknown error"

\* C14: no step makes the lastActivityTimestamp of a task smaller.
TimestampNeverDecreases ==
    [][\A id \in Ids(files) \cap Ids(files') :
          RecordOf(files', id).lastActivityTimestamp
              >= RecordOf(files, id).lastActivityTimestamp]_vars

\* C15: a task that becomes Pending has lastActivityTimestamp set to the
\* current time.
PendingStampsTimestamp ==
    [][\A id \in Ids(files) \cap Ids(files') :
          (StatusOf(files, id) # PENDING /\ StatusOf(files', id) = PENDING)
              => RecordOf(files', id).lastActivityTimestamp = now']_vars

\* C16: at most one processQueue loop is running at any time.
SingleLoop == loops <= 1

\* C17: when a task becomes Pending, a processQueue call is pending or a
\* loop is running that has not been told to stop, so that the task is
\* dispatched in the end.
PendingHasLoop ==
    [][(\E id \in Ids(files) \cap Ids(files') :
           StatusOf(files, id) # PENDING /\ StatusOf(files', id) = PENDING)
       => (queueTimers' > 0 \/ (loops' > 0 /\ ~abort'))]_vars

\* C18: a processQueue loop ends only with the stop flag set or with no
\* Pending and no Processing task in the list; a loop that ends in the pass
\* it starts with ends for the second reason.
ExitOnlyWhenDrained ==
    [][/\ (apiKey' /\ loops' < loops)
          => (abort \/ \A i \in DOMAIN files :
                          files[i].status \notin {PENDING, PROCESSING})
       /\ (apiKey' /\ queueTimers' < queueTimers /\ loops' = loops)
          => \A i \in DOMAIN files :
                 files[i].status \notin {PENDING, PROCESSING}]_vars

\* the loop has run both tasks to their end and has exited unasked
DrainedWitness ==
    /\ ~abort /\ loops = 0 /\ queueTimers = 0 /\ ~isProcessing
    /\ workers = EmptyBag
    /\ Len(files) = 2
    /\ files[1].status = COMPLETED /\ files[2].status = FAILED

\* C19: the processQueue call that Start scheduled runs with the stop flag
\* cleared, and from then on, unless Stop is called, the run ends with every
\* task Completed or Failed, no loop running and isProcessing false.
Drained ==
    /\ ~isProcessing /\ loops = 0 /\ queueTimers = 0 /\ workers = EmptyBag
    /\ \A i \in DOMAIN files : files[i].status \in {COMPLETED, FAILED}

QueueDrains ==
    /\ (queueTimers > 0) ~> (~abort /\ queueTimers = 0 /\ (loops > 0 \/ Drained))
    /\ (loops > 0 /\ ~abort) ~> (abort \/ Drained)

\* a run with auto-retry has ended, one task Completed and one Failed
DrainWitness ==
    /\ ~abort /\ Quiet /\ ~isProcessing
    /\ autoRetry /\ ~enableConcurrency
    /\ Len(files) = 2
    /\ files[1].status = FAILED /\ files[2].status = COMPLETED

\* C20: a stop flag that is set while a Worker waits out its backoff is still
\* set when the Worker wakes up, whatever is started in between; the Worker
\* then makes no further call of the service and its task becomes Failed with
\* the last recorded error.
Retried(w) == [w EXCEPT !.phase = "call", !.attempts = @ + 1]

StopEndsRetries ==
    [][\A w \in InFlight :
          (w.phase = "backoff" /\ abort) =>
              \/ abort' /\ CopiesIn(w, workers') = CopiesIn(w, workers)
              \/ /\ CopiesIn(w, workers') < CopiesIn(w, workers)
                 /\ CopiesIn(Retried(w), workers') <= CopiesIn(Retried(w), workers)
                 /\ \A i \in DOMAIN files' :
                        files'[i].id = w.fileItem.id =>
                            /\ files'[i].status = FAILED
                            /\ files'[i].error = ErrorMessage(Thrown(w.lastError))]_vars

\* C21: the ids in the store are pairwise distinct in every reachable state,
\* and a dispatch, a retry, a worker's write-back or a regenerate leaves the
\* sequence of ids of the store as it was: no record is added, removed or
\* given another id.
InPlaceStep ==
    \/ ProcessQueue
    \/ LoopIteration
    \/ \E w \in InFlight : \E result \in Results : ServiceSuccess(w, result)
    \/ \E w \in InFlight : \E message \in ServiceErrors : ServiceFailure(w, message)
    \/ \E w \in InFlight : BackoffEnd(w)
    \/ \E id \in 1..MaxTasks : \E timestamp \in now..MaxTime : HandleRegenerate(id, timestamp)

TaskIdentity ==
    [][/\ \A i, j \in DOMAIN files' : files'[i].id = files'[j].id => i = j
       /\ InPlaceStep => IdSeq(files') = IdSeq(files)]_vars

\* two tasks; the second was regenerated, dispatched and written back
IdentityWitness ==
    /\ Len(files) = 2
    /\ files[1].id = 1 /\ files[2].id = 2
    /\ files[2].isRetry /\ files[2].status = COMPLETED
    /\ files[1].status = PROCESSING

\* C22: Start leaves the store with the same tasks in the same order, every
\* task that was Idle or Failed now Pending with no error and otherwise as it
\* was, every other task untouched, and one more processQueue call scheduled;
\* while the store is empty no processQueue call is scheduled and no loop
\* starts.
StartMovesIdleAndFailed ==
    [][/\ StartProcessing =>
            /\ Len(files') = Len(files)
            /\ \A i \in DOMAIN files :
                  IF files[i].status \in {IDLE, FAILED}
                  THEN /\ files'[i].status = PENDING
                       /\ files'[i].error = Undefined
                       /\ files'[i] = [files[i] EXCEPT !.status = PENDING,
                                                        !.error = Undefined]
                  ELSE files'[i] = files[i]
            /\ queueTimers' = queueTimers + 1
       /\ Len(files) = 0 => (queueTimers' <= queueTimers /\ loops' <= loops)]_vars

\* Start has just acted on a store with a Completed task and a task that was
\* Idle or Failed
StartWitness ==
    /\ queueTimers = 1 /\ loops = 0 /\ workers = EmptyBag
    /\ Len(files) = 2
    /\ files[1].status = COMPLETED
    /\ files[2].status = PENDING /\ ~files[2].isRetry /\ files[2].error = Undefined

\* C23: a task dispatched while no key is there becomes Failed with the
\* message of the missing key in the very step that dispatches it, whatever
\* autoRetry is; no worker is left in flight for it, so the service is not
\* called and no backoff is taken.
MissingKeyFailsFast ==
    [][\A i \in DOMAIN files :
          (/\ ~apiKey
           /\ Len(files') = Len(files)
           /\ files[i].status = PENDING
           /\ files'[i].status # PENDING)
          => /\ files'[i].status = FAILED
             /\ files'[i].error = "API Key is missing"
             /\ workers' = workers]_vars

\* with auto-retry on, a task was dispatched after the key was taken away
MissingKeyWitness ==
    /\ ~apiKey /\ autoRetry
    /\ \E i \in DOMAIN files :
          files[i].status = FAILED /\ files[i].error = "API Key is missing"

\* C24: a worker whose call fails goes on to a retry exactly when its attempts
\* so far are below the budget that autoRetry gives at that moment (three with
\* auto-retry on, one with it off) and the stop flag is not set.
BackedOff(w, message) == [w EXCEPT !.phase = "backoff", !.lastError = message]

RetryBudgetReadLive ==
    [][\A w \in InFlight : \A message \in ServiceErrors :
          ServiceFailure(w, message) =>
              ((CopiesIn(BackedOff(w, message), workers')
                    > CopiesIn(BackedOff(w, message), workers))
               <=> (w.attempts < (IF autoRetry THEN 3 ELSE 1) /\ ~abort))]_vars

\* C25: a paired upload whose image files are f1 .. fn appends ceil(n/2) Idle
\* tasks after the tasks already there: the k-th of them has f(2k-1) as input
\* and f(2k) as second input, or no second input when f(2k-1) is the last of an
\* odd n; a single upload of n image files appends n tasks without a second
\* input.  All tasks of one upload carry its timestamp and isRetry = false.
Appended(m, timestamp) ==
    /\ Len(files') = Len(files) + m
    /\ SubSeq(files', 1, Len(files)) = files
    /\ \A k \in 1..m :
          /\ files'[Len(files) + k].status = IDLE
          /\ files'[Len(files) + k].lastActivityTimestamp = timestamp
          /\ files'[Len(files) + k].isRetry = FALSE

PairedEnqueue ==
    [][/\ \A incomingFiles \in Drops : \A timestamp \in now..MaxTime :
             AddDualFilesToQueue(incomingFiles, timestamp) =>
                 LET f == ImageFiles(incomingFiles)
                     n == Len(f)
                     m == (n + 1) \div 2
                 IN  /\ Appended(m, timestamp)
                     /\ \A k \in 1..m :
                           /\ files'[Len(files) + k].file = f[2 * k - 1].name
                           /\ files'[Len(files) + k].secondaryFile =
                                 IF 2 * k <= n THEN f[2 * k].name ELSE Undefined
       /\ \A n \in 1..MaxTasks : \A timestamp \in now..MaxTime :
             AddFilesToQueue(n, timestamp) =>
                 /\ Appended(n, timestamp)
                 /\ \A k \in 1..n :
                       files'[Len(files) + k].secondaryFile = Undefined]_vars

\* three images were dropped on the paired area: a pair, then the odd one
PairedWitness ==
    /\ Len(files) = 2
    /\ files[1].status = IDLE /\ files[2].status = IDLE
    /\ files[1].file = "c.png" /\ files[1].secondaryFile = "a.png"
    /\ files[2].file = "b.jpg" /\ files[2].secondaryFile = Undefined

\* C26: the loop pass that dispatches a task leaves it Processing with its worker
\* in flight, or, when the worker fails at once, already Failed: the mark is
\* never applied after the worker's write.  The step in which a worker ends
\* leaves its task Completed or Failed: the last write of a dispatch is the
\* terminal one.
Ends(w) ==
    /\ CopiesIn(w, workers') < CopiesIn(w, workers)
    /\ BagCardinality(workers') < BagCardinality(workers)

MarkBeforeTerminalWrite ==
    [][\A i \in DOMAIN files :
          Len(files') = Len(files) =>
              /\ (/\ ProcessQueue \/ LoopIteration
                  /\ files[i].status = PENDING /\ files'[i].status # PENDING) =>
                    \/ /\ files'[i].status = PROCESSING
                       /\ \E w \in BagToSet(workers') :
                             /\ w.fileItem.id = files[i].id
                             /\ CopiesIn(w, workers') > CopiesIn(w, workers)
                    \/ /\ ~apiKey
                       /\ files'[i].status = FAILED
                       /\ workers' = workers
              /\ (\E w \in InFlight : w.fileItem.id = files[i].id /\ Ends(w)) =>
                    files'[i].status \in {COMPLETED, FAILED}]_vars

\* one dispatch ended with the worker's result, a later one failed at once
OrderWitness ==
    /\ ~apiKey /\ Len(files) = 2 /\ workers = EmptyBag
    /\ files[1].status = COMPLETED
    /\ files[2].status = FAILED /\ files[2].error = "API Key is missing"

\* C27: every task that is Processing has a worker in flight that will write
\* to its id.
NoOrphanedProcessing ==
    \A i \in DOMAIN files :
        files[i].status = PROCESSING => WorkersOf(files[i].id) # {}

\* a regenerated task is Processing, the worker of that dispatch the only one
\* in flight
OrphanWitness ==
    \E i \in DOMAIN files :
        /\ files[i].status = PROCESSING /\ files[i].isRetry
        /\ \E w \in WorkersOf(files[i].id) :
              w.fileItem.isRetry /\ BagCardinality(workers) = 1

\* C28: a task that has been regenerated keeps isRetry = true and does not go
\* back to an earlier timestamp, and while it waits as Pending for its new
\* dispatch no outcome is stored for it: it leaves Pending only by being
\* dispatched.
RegenerateNotOverridden ==
    [][\A i \in DOMAIN files :
          (Len(files') = Len(files) /\ files[i].isRetry) =>
              /\ files'[i].isRetry
              /\ files'[i].lastActivityTimestamp >= files[i].lastActivityTimestamp
              /\ files[i].status = PENDING =>
                    files'[i].status \in {PENDING, PROCESSING}]_vars

\* C29: Stop changes nothing but the stop flag; a stop request made while a
\* loop runs stays in force until that loop's next pass, and the pass that
\* finds the flag set ends the loop at once, changing no record and waiting
\* for no worker.
StopOnlySetsFlag ==
    [][/\ StopProcessing =>
            (files' = files /\ workers' = workers /\ loops' = loops
             /\ isProcessing' = isProcessing /\ queueTimers' = queueTimers)
       /\ (abort /\ loops > 0) => (abort' \/ loops' < loops)
       /\ (abort /\ LoopIteration) =>
            (loops' = loops - 1 /\ files' = files /\ workers' = workers)]_vars

\* C30: Regenerate of a task, whatever its status, leaves the store with the
\* same tasks in the same order, the task itself Pending without result and
\* error, with isRetry = true and the current time as timestamp and otherwise
\* as it was, every other task untouched; and the task is then the first in
\* the order in which the loop dispatches Pending tasks.
RegeneratePreempts ==
    [][\A id \in 1..MaxTasks : \A timestamp \in now..MaxTime :
          HandleRegenerate(id, timestamp) =>
              /\ Len(files') = Len(files)
              /\ \A i \in DOMAIN files :
                    IF files[i].id = id
                    THEN /\ files'[i].id = id
                         /\ files'[i].status = PENDING
                         /\ files'[i].resultBlob = Undefined
                         /\ files'[i].error = Undefined
                         /\ files'[i].isRetry
                         /\ files'[i].lastActivityTimestamp = timestamp
                         /\ files'[i].file = files[i].file
                         /\ files'[i].secondaryFile = files[i].secondaryFile
                         /\ files'[i].customPrompt = files[i].customPrompt
                    ELSE files'[i] = files[i]
              /\ PendingFiles(files')[1].id = id]_vars

\* C31: in every reachable store, each write that is keyed by an id (the
\* Processing mark, the success and the failure write-back, Regenerate, the
\* prompt save, Remove) leaves the store as it is when no record has the id,
\* and otherwise changes no record but the one with the id; Remove leaves the
\* other records in their order.
OnlyRecord(fs, gs, id) ==
    IF id \in Ids(fs)
    THEN /\ Len(gs) = Len(fs)
         /\ \A i \in DOMAIN fs : fs[i].id # id => gs[i] = fs[i]
    ELSE gs = fs

IdKeyedWrites ==
    \A id \in 1..MaxTasks :
        /\ OnlyRecord(files, MarkProcessing(files, id), id)
        /\ \A message \in ServiceErrors :
              OnlyRecord(files, WriteFailure(files, id, message), id)
        /\ \A timestamp \in 0..MaxTime :
              /\ OnlyRecord(files, RegeneratedFiles(files, id, timestamp), id)
              /\ OnlyRecord(files,
                     WriteSuccess(files, UpdatedFile(NewFile(id, timestamp, Undefined), "r1")),
                     id)
        /\ \A w \in InFlight :
              w.fileItem.id = id =>
                  OnlyRecord(files, WriteSuccess(files, UpdatedFile(w.fileItem, "r1")), id)
        /\ \A newPrompt \in Prompts :
              OnlyRecord(files, SavedPrompt(files, id, newPrompt), id)
        /\ LET rest == FilterNotId(files, id)
           IN  IF id \in Ids(files)
               THEN /\ Len(rest) < Len(files)
                    /\ \A i \in DOMAIN files :
                          files[i].id # id =>
                              \E k \in DOMAIN rest :
                                  /\ rest[k] = files[i]
                                  /\ k = Cardinality({j \in 1..i : files[j].id # id})
               ELSE rest = files

\* a worker is in flight for a task that was removed, next to a task that is
\* still in the store and Processing
AbsentIdWitness ==
    /\ \E w \in InFlight : w.fileItem.id \notin Ids(files)
    /\ \E i \in DOMAIN files :
          files[i].status = PROCESSING /\ WorkersOf(files[i].id) # {}

\* C32: the step in which a worker ends changes nothing of its task's record
\* but status, result and error; a prompt saved while the worker was in
\* flight is still there afterwards.
WriteBackKeepsPrompt ==
    [][\A i \in DOMAIN files :
          (/\ Len(files') = Len(files)
           /\ \E w \in InFlight : w.fileItem.id = files[i].id /\ Ends(w))
          => /\ files'[i].customPrompt = files[i].customPrompt
             /\ files'[i] = [files[i] EXCEPT !.status = files'[i].status,
                                             !.resultBlob = files'[i].resultBlob,
                                             !.error = files'[i].error]]_vars

\* C33: a task becomes Processing only from Pending, and a task that is Idle
\* stays Idle, whether or not a loop is running, until a step makes it
\* Pending (or removes it).
OnlyPendingDispatched ==
    [][\A i \in DOMAIN files :
          (i \in DOMAIN files' /\ files'[i].id = files[i].id) =>
              /\ (files'[i].status = PROCESSING /\ files[i].status # PROCESSING)
                    => files[i].status = PENDING
              /\ files[i].status = IDLE => files'[i].status \in {IDLE, PENDING}]_vars

\* a clone made while the loop is running: it is Idle, nothing else is left to
\* do and the loop has not yet made its last pass
IdleWhileRunningWitness ==
    /\ loops > 0 /\ ~abort /\ workers = EmptyBag
    /\ Len(files) = 2
    /\ files[1].status = COMPLETED
    /\ files[2].status = IDLE /\ files[2].file = "r1"

\* C34: the task a loop pass dispatches comes, in the store, before every
\* other Pending task of the same lastActivityTimestamp, and no Pending task
\* has a larger one: one upload is dispatched in the order of the store, a
\* newer upload before an older one.
TieBreakByStoreOrder ==
    [][\A k \in DOMAIN files :
          (/\ ProcessQueue \/ LoopIteration
           /\ files[k].status = PENDING /\ files'[k].status = PROCESSING)
          => \A i \in DOMAIN files :
                (i # k /\ files[i].status = PENDING) =>
                    \/ files[i].lastActivityTimestamp < files[k].lastActivityTimestamp
                    \/ /\ files[i].lastActivityTimestamp = files[k].lastActivityTimestamp
                       /\ k < i]_vars

\* of two tasks uploaded together the first has been dispatched, the second
\* is still Pending
TieWitness ==
    /\ Len(files) = 2
    /\ files[1].lastActivityTimestamp = files[2].lastActivityTimestamp
    /\ files[1].status = PROCESSING /\ files[2].status = PENDING
    /\ Outstanding = 1 /\ loops > 0 /\ ~abort

\* C35: when the call of a worker's last attempt fails, the task is Failed
\* with the message of that call and has no result.
LastErrorNoResult ==
    [][\A w \in InFlight : \A message \in ServiceErrors :
          (/\ ServiceFailure(w, message)
           /\ w.attempts = MaxAttempts(w.currentAutoRetry))
          => \A i \in DOMAIN files' :
                files'[i].id = w.fileItem.id =>
                    /\ files'[i].status = FAILED
                    /\ files'[i].error = ErrorMessage(message)
                    /\ files'[i].resultBlob = Undefined]_vars

\* C36: a step dispatches at most one task and starts at most one worker, and
\* a task is dispatched either by a loop pass, which follows that loop's
\* wait, or by the first pass of a processQueue call made while no loop is
\* running: no dispatch without a wait after the dispatch before it.
NewlyProcessing ==
    {i \in DOMAIN files :
        /\ i \in DOMAIN files'
        /\ files[i].status = PENDING /\ files'[i].status = PROCESSING}

OneDispatchPerPass ==
    [][/\ Cardinality(NewlyProcessing) <= 1
       /\ BagCardinality(workers') <= BagCardinality(workers) + 1
       /\ (ProcessQueue /\ NewlyProcessing # {}) => loops = 0]_vars

\* C37: an upload or a clone leaves the records that were there as they were
\* and where they were, the new ones after them; dispatch, a worker's step,
\* Start, Regenerate and the prompt save leave every record at its position;
\* Remove takes one record out and leaves the others in their order.
AppendStep ==
    \/ \E n \in 1..MaxTasks : \E timestamp \in now..MaxTime : AddFilesToQueue(n, timestamp)
    \/ \E incomingFiles \in Drops : \E timestamp \in now..MaxTime : AddDualFilesToQueue(incomingFiles, timestamp)
    \/ \E id \in 1..MaxTasks : \E timestamp \in now..MaxTime : HandleUseResultAsInput(id, timestamp)

OneOut(fs, gs) ==
    \E k \in DOMAIN fs : gs = SubSeq(fs, 1, k - 1) \o SubSeq(fs, k + 1, Len(fs))

ClearRefusedWhileRunning ==
    [][/\ ClearAll => (loops = 0 /\ files' = <<>>)
       /\ (/\ files = <<>>
           /\ \E w \in InFlight :
                \/ \E result \in Results : ServiceSuccess(w, result)
                \/ \E message \in ServiceErrors : ServiceFailure(w, message))
          => files' = <<>>]_vars

\* C39: a worker that starts uses the override of its task as it is when
\* the override is there and not empty; otherwise it uses the template of
\* the moment it starts, with the placeholder replaced by the name of the
\* primary file without its extension.
InPlaceOf(template, name) ==
    LET found == {i \in DOMAIN template : template[i] = Placeholder}
    IN  IF found = {} THEN template
        ELSE LET pos == CHOOSE i \in found : \A j \in found : i <= j
             IN  SubSeq(template, 1, pos - 1) \o name
                     \o SubSeq(template, pos + 1, Len(template))

Started == {w \in BagToSet(workers') \ BagToSet(workers) : w.attempts = 1 /\ w.phase = "call"}

EffectivePrompt ==
    [][\A w \in Started :
          IF w.fileItem.customPrompt \notin {Undefined, ""}
          THEN w.finalPrompt = Chars(w.fileItem.customPrompt)
          ELSE w.finalPrompt =
                   InPlaceOf(customPromptTemplate,
                             FileNameWithoutExt(Chars(w.fileItem.file)))]_vars

====
